---------------------------- MODULE Spec2Model ----------------------------
(***************************************************************************)
(* A model of the svg-metadata crate (src/src/lib.rs, src/src/error.rs):   *)
(* the viewBox parser, the length parser with its unit resolver, and       *)
(* Metadata::parse with the width()/height() accessors.                    *)
(*                                                                         *)
(* Text is a sequence of one-character strings.  An f64 is modelled by the *)
(* exact decimal it denotes, [n |-> numerator, e |-> decimal places],      *)
(* normalised, so that equality is equality of values (-0 = 0, 1.50 = 1.5) *)
(* as f64's PartialEq has it on the short literals used here.              *)
(***************************************************************************)
EXTENDS Integers, Sequences, FiniteSets, TLC

VARIABLES op, arg, ret, self

vars == <<op, arg, ret, self>>

----------------------------------------------------------------------------
(* Option and Result *)

None == [some |-> FALSE]

Some(v) == [some |-> TRUE, val |-> v]

Ok(v) == [ok |-> TRUE, val |-> v]

Err(msg) == [ok |-> FALSE, err |-> msg]

\* Result::ok(): Ok(v) becomes Some(v), Err(_) becomes None.
ResultOk(r) == IF r.ok THEN Some(r.val) ELSE None

----------------------------------------------------------------------------
(* Characters *)

DigitChars == <<"0", "1", "2", "3", "4", "5", "6", "7", "8", "9">>

IsDigit(c) == \E d \in 1..Len(DigitChars) : DigitChars[d] = c

DigitVal(c) == (CHOOSE d \in 1..Len(DigitChars) : DigitChars[d] = c) - 1

\* The whitespace class \s of the regex, on the characters used here.
IsSpace(c) == c \in {" ", "\t", "\n"}

UpperChars == <<"A", "B", "C", "D", "E", "F", "G", "H", "I", "J", "K", "L", "M",
                "N", "O", "P", "Q", "R", "S", "T", "U", "V", "W", "X", "Y", "Z">>

LowerChars == <<"a", "b", "c", "d", "e", "f", "g", "h", "i", "j", "k", "l", "m",
                "n", "o", "p", "q", "r", "s", "t", "u", "v", "w", "x", "y", "z">>

\* char::to_lowercase on ASCII.
LowerChar(c) ==
    IF \E k \in 1..Len(UpperChars) : UpperChars[k] = c
    THEN LowerChars[CHOOSE k \in 1..Len(UpperChars) : UpperChars[k] = c]
    ELSE c

\* str::to_lowercase.
to_lowercase(s) == [k \in 1..Len(s) |-> LowerChar(s[k])]

\* The number of consecutive characters of s from position i on that satisfy
\* the class: digits, or whitespace.
RECURSIVE DigitRun(_, _)
DigitRun(s, i) ==
    IF i <= Len(s) /\ IsDigit(s[i]) THEN 1 + DigitRun(s, i + 1) ELSE 0

RECURSIVE SpaceRun(_, _)
SpaceRun(s, i) ==
    IF i <= Len(s) /\ IsSpace(s[i]) THEN 1 + SpaceRun(s, i + 1) ELSE 0

----------------------------------------------------------------------------
(* f64 and str::parse::<f64> *)

RECURSIVE Norm(_, _)
Norm(n, e) ==
    IF e > 0 /\ n % 10 = 0 THEN Norm(n \div 10, e - 1) ELSE [n |-> n, e |-> e]

\* a * b and a / 100.0 on the exact decimals.
FMul(a, b) == Norm(a.n * b.n, a.e + b.e)

FDiv100(a) == Norm(a.n, a.e + 2)

RECURSIVE DigitsVal(_)
DigitsVal(ds) ==
    IF ds = <<>> THEN 0
    ELSE 10 * DigitsVal(SubSeq(ds, 1, Len(ds) - 1)) + DigitVal(ds[Len(ds)])

\* The error every failed float conversion becomes (error.rs, From<ParseFloatError>).
FloatError == <<"Cannot convert string to float">>

\* str::parse::<f64> on decimal literals: an optional sign '+' or '-', digits,
\* an optional '.', digits, with at least one digit and nothing else.  (The
\* exponent and the inf/nan spellings f64 also accepts need letters that no
\* text handed to this operator in the model contains.)
\* body is the text after the sign, d1 the digits before the point, d2 those
\* after it.
HasPoint(body, d1) == d1 + 1 <= Len(body) /\ body[d1 + 1] = "."

FractionRun(body, d1) == IF HasPoint(body, d1) THEN DigitRun(body, d1 + 2) ELSE 0

DecimalEnd(body, d1, d2) == d1 + (IF HasPoint(body, d1) THEN 1 ELSE 0) + d2

DecimalValue(body, neg, d1, d2) ==
    Norm((IF neg THEN 0 - 1 ELSE 1)
           * DigitsVal(SubSeq(body, 1, d1) \o SubSeq(body, d1 + 2, d1 + 1 + d2)),
         d2)

ParseDecimal(body, neg, d1, d2) ==
    IF DecimalEnd(body, d1, d2) = Len(body) /\ d1 + d2 >= 1
    THEN Ok(DecimalValue(body, neg, d1, d2))
    ELSE Err(FloatError)

ParseUnsigned(body, neg) ==
    ParseDecimal(body, neg, DigitRun(body, 1), FractionRun(body, DigitRun(body, 1)))

ParseFloat(s) ==
    IF s /= <<>> /\ s[1] \in {"+", "-"}
    THEN ParseUnsigned(Tail(s), s[1] = "-")
    ELSE ParseUnsigned(s, FALSE)

\* usize's Display: the decimal digits of n.
RECURSIVE ToDecimal(_)
ToDecimal(n) ==
    IF n < 10 THEN <<DigitChars[n + 1]>>
    ELSE ToDecimal(n \div 10) \o <<DigitChars[(n % 10) + 1]>>

----------------------------------------------------------------------------
(* VBOX_ELEMENTS and ViewBox::try_from *)

\* The length of the match of ,?\s+ that starts exactly at position i of s,
\* 0 when there is none.
VBOX_ELEMENTS_match(s, i) ==
    IF i <= Len(s) /\ s[i] = ","
    THEN IF SpaceRun(s, i + 1) > 0 THEN 1 + SpaceRun(s, i + 1) ELSE 0
    ELSE SpaceRun(s, i)

\* Regex::split: the text between consecutive leftmost matches, then the rest;
\* last is where the previous match ended, i the position being tried.
RECURSIVE SplitFrom(_, _, _)
SplitFrom(s, last, i) ==
    IF i > Len(s) THEN <<SubSeq(s, last, Len(s))>>
    ELSE IF VBOX_ELEMENTS_match(s, i) > 0
         THEN <<SubSeq(s, last, i - 1)>>
              \o SplitFrom(s, i + VBOX_ELEMENTS_match(s, i), i + VBOX_ELEMENTS_match(s, i))
         ELSE SplitFrom(s, last, i + 1)

VBOX_ELEMENTS_split(s) == SplitFrom(s, 1, 1)

\* The number of elements a viewBox must have.
VBoxLen == 4

\* A message that names the number expected, not the number found.
CountError_expected(n) ==
    <<"Invalid view_box: Expected four elements, got ">> \o ToDecimal(VBoxLen)

CountError(n) == <<"Invalid view_box: Expected four elements, got ">> \o ToDecimal(n)

\* width and height taken from each other's element.
ViewBoxOf_swapped(min_x, min_y, width, height) ==
    IF ~min_x.ok THEN Err(min_x.err)
    ELSE IF ~min_y.ok THEN Err(min_y.err)
    ELSE IF ~width.ok THEN Err(width.err)
    ELSE IF ~height.ok THEN Err(height.err)
    ELSE Ok([min_x |-> min_x.val, min_y |-> min_y.val,
             width |-> height.val, height |-> width.val])

\* The four conversions, in order; the first that fails is the error returned.
ViewBoxOf(min_x, min_y, width, height) ==
    IF ~min_x.ok THEN Err(min_x.err)
    ELSE IF ~min_y.ok THEN Err(min_y.err)
    ELSE IF ~width.ok THEN Err(width.err)
    ELSE IF ~height.ok THEN Err(height.err)
    ELSE Ok([min_x |-> min_x.val, min_y |-> min_y.val,
             width |-> width.val, height |-> height.val])

\* The first element converted before the elements are counted.
ViewBoxFromElems_convert_first(elem) ==
    IF ~ParseFloat(elem[1]).ok THEN Err(FloatError)
    ELSE IF Len(elem) /= VBoxLen THEN Err(CountError(Len(elem)))
    ELSE ViewBoxOf(ParseFloat(elem[1]), ParseFloat(elem[2]),
                   ParseFloat(elem[3]), ParseFloat(elem[4]))

ViewBoxFromElems(elem) ==
    IF Len(elem) /= VBoxLen THEN Err(CountError(Len(elem)))
    ELSE ViewBoxOf(ParseFloat(elem[1]), ParseFloat(elem[2]),
                   ParseFloat(elem[3]), ParseFloat(elem[4]))

ViewBox_try_from(s) == ViewBoxFromElems(VBOX_ELEMENTS_split(s))

----------------------------------------------------------------------------
(* Unit::try_from, DIMENSION, parse_dimension, Width::try_from, Height::try_from *)

Units == {"Em", "Ex", "Px", "Pt", "Pc", "Cm", "Mm", "In", "Percent"}

\* A message that names the token in lower case.
UnknownUnit_lower(s) == <<"Unknown unit: ">> \o to_lowercase(s)

UnknownUnit(s) == <<"Unknown unit: ">> \o s

\* l is the token in lower case, s the token as given.
UnitOf(l, s) ==
    CASE l = <<"e", "m">> -> Ok("Em")
      [] l = <<"e", "x">> -> Ok("Ex")
      [] l = <<"p", "x">> -> Ok("Px")
      [] l = <<"p", "t">> -> Ok("Pt")
      [] l = <<"p", "c">> -> Ok("Pc")
      [] l = <<"c", "m">> -> Ok("Cm")
      [] l = <<"m", "m">> -> Ok("Mm")
      [] l = <<"i", "n">> -> Ok("In")
      [] l = <<"%">>      -> Ok("Percent")
      [] OTHER            -> Err(UnknownUnit(s))

\* The token matched as given, without to_lowercase.
Unit_try_from_exact(s) == UnitOf(s, s)

Unit_try_from(s) == UnitOf(to_lowercase(s), s)

\* The characters the class [\+|-] of DIMENSION holds.
DIMENSION_sign == {"+", "|", "-"}

\* Whether a match of ([\+|-]?\d+\.?\d*)(\D\D?)? starts exactly at position i.
DIMENSION_starts(s, i) ==
    \/ IsDigit(s[i])
    \/ s[i] \in DIMENSION_sign /\ i + 1 <= Len(s) /\ IsDigit(s[i + 1])

\* The position where the leftmost match of DIMENSION in s starts, 0 when s
\* holds no match.
DIMENSION_find(s) ==
    IF \E i \in 1..Len(s) : DIMENSION_starts(s, i)
    THEN CHOOSE k \in 1..Len(s) :
             /\ DIMENSION_starts(s, k)
             /\ \A j \in 1..(k - 1) : ~DIMENSION_starts(s, j)
    ELSE 0

\* Group 1, greedy: from i, the position after [\+|-]?\d+ and then after \.?\d*.
AfterDigits(s, i) ==
    IF s[i] \in DIMENSION_sign THEN i + 1 + DigitRun(s, i + 1) ELSE i + DigitRun(s, i)

AfterNumber(s, p) ==
    IF p <= Len(s) /\ s[p] = "." THEN p + 1 + DigitRun(s, p + 1) ELSE p

\* Group 2, greedy: the length of (\D\D?)? at q; 0 when the group takes no part.
UnitLen(s, q) ==
    IF q <= Len(s) /\ ~IsDigit(s[q])
    THEN IF q + 1 <= Len(s) /\ ~IsDigit(s[q + 1]) THEN 2 ELSE 1
    ELSE 0

Groups(s, i, q, n2) ==
    [g1 |-> Some(SubSeq(s, i, q - 1)),
     g2 |-> IF n2 > 0 THEN Some(SubSeq(s, q, q + n2 - 1)) ELSE None]

CapturesFrom(s, i, q) == Some(Groups(s, i, q, UnitLen(s, q)))

\* Regex::captures: the leftmost match of DIMENSION in s and its two groups;
\* None when s holds no match.
DIMENSION_captures(s) ==
    IF DIMENSION_find(s) = 0 THEN None
    ELSE CapturesFrom(s, DIMENSION_find(s), AfterNumber(s, AfterDigits(s, DIMENSION_find(s))))

NoDimension == <<"Cannot read dimensions">>

NoWidth == <<"No width specified">>

\* (val.parse::<f64>()?, Unit::try_from(unit)?): the float is converted first.
DimensionPair(f, u) ==
    IF ~f.ok THEN Err(f.err)
    ELSE IF ~u.ok THEN Err(u.err)
    ELSE Ok(<<f.val, u.val>>)

DimensionOf(caps) ==
    IF ~caps.some THEN Err(NoDimension)
    ELSE IF ~caps.val.g1.some THEN Err(NoWidth)
    ELSE DimensionPair(ParseFloat(caps.val.g1.val),
                       Unit_try_from(IF caps.val.g2.some THEN caps.val.g2.val
                                     ELSE <<"e", "m">>))

parse_dimension(s) == DimensionOf(DIMENSION_captures(s))

AsWidth(r) == IF r.ok THEN Ok([width |-> r.val[1], unit |-> r.val[2]]) ELSE r

Width_try_from(s) == AsWidth(parse_dimension(s))

AsHeight(r) == IF r.ok THEN Ok([height |-> r.val[1], unit |-> r.val[2]]) ELSE r

Height_try_from(s) == AsHeight(parse_dimension(s))

----------------------------------------------------------------------------
(* Metadata *)

\* roxmltree's Document::parse and root_element, as Metadata::parse uses them:
\* a document is either refused, or gives a root element whose attributes
\* viewBox, width and height are each absent or a text.
XmlError == <<"xml error">>

Document_parse(doc) == IF doc.well_formed THEN Ok(doc.root) ELSE Err(XmlError)

\* The three fields: each attribute that is present goes to its own parser,
\* and .ok() turns a failure into None.
ViewBoxField(a) == IF a.some THEN ResultOk(ViewBox_try_from(a.val)) ELSE None

WidthField(a) == IF a.some THEN ResultOk(Width_try_from(a.val)) ELSE None

HeightField(a) == IF a.some THEN ResultOk(Height_try_from(a.val)) ELSE None

\* width and height read only once the viewBox has parsed.
MetadataOf_chained(d) ==
    IF ~d.ok THEN Err(d.err)
    ELSE Ok([view_box |-> ViewBoxField(d.val.viewBox),
             width    |-> IF ViewBoxField(d.val.viewBox).some
                          THEN WidthField(d.val.width) ELSE None,
             height   |-> IF ViewBoxField(d.val.viewBox).some
                          THEN HeightField(d.val.height) ELSE None])

\* ? in place of .ok(): the failure of an attribute's parser fails the parse.
MetadataOf_strict(d) ==
    IF ~d.ok THEN Err(d.err)
    ELSE IF d.val.viewBox.some /\ ~ViewBox_try_from(d.val.viewBox.val).ok
         THEN Err(ViewBox_try_from(d.val.viewBox.val).err)
    ELSE IF d.val.width.some /\ ~Width_try_from(d.val.width.val).ok
         THEN Err(Width_try_from(d.val.width.val).err)
    ELSE IF d.val.height.some /\ ~Height_try_from(d.val.height.val).ok
         THEN Err(Height_try_from(d.val.height.val).err)
    ELSE Ok([view_box |-> ViewBoxField(d.val.viewBox),
             width    |-> WidthField(d.val.width),
             height   |-> HeightField(d.val.height)])

MetadataOf(d) ==
    IF ~d.ok THEN Err(d.err)
    ELSE Ok([view_box |-> ViewBoxField(d.val.viewBox),
             width    |-> WidthField(d.val.width),
             height   |-> HeightField(d.val.height)])

Metadata_parse(doc) == MetadataOf(Document_parse(doc))

\* A percent width with no view_box to take it of gives None.
Metadata_width_strict(m) ==
    IF m.width.some /\ m.width.val.unit = "Percent"
    THEN IF m.view_box.some
         THEN Some(FMul(FDiv100(m.width.val.width), m.view_box.val.width))
         ELSE None
    ELSE IF m.width.some THEN Some(m.width.val.width) ELSE None

Metadata_width(m) ==
    IF m.width.some /\ m.width.val.unit = "Percent" /\ m.view_box.some
    THEN Some(FMul(FDiv100(m.width.val.width), m.view_box.val.width))
    ELSE IF m.width.some THEN Some(m.width.val.width) ELSE None

\* The percent height taken of the view_box's width.
Metadata_height_of_width(m) ==
    IF m.height.some /\ m.height.val.unit = "Percent" /\ m.view_box.some
    THEN Some(FMul(FDiv100(m.height.val.height), m.view_box.val.width))
    ELSE IF m.height.some THEN Some(m.height.val.height) ELSE None

Metadata_height(m) ==
    IF m.height.some /\ m.height.val.unit = "Percent" /\ m.view_box.some
    THEN Some(FMul(FDiv100(m.height.val.height), m.view_box.val.height))
    ELSE IF m.height.some THEN Some(m.height.val.height) ELSE None

----------------------------------------------------------------------------
(* The calls made and their inputs *)

\* op is the call made last ("new" before any), arg its input, ret what it
\* returned, and self the Metadata value the accessors read.
NoArg == [none |-> TRUE]

Init ==
    /\ op = "new"
    /\ arg = NoArg
    /\ ret = None
    /\ self = None

(* viewBox texts: tokens joined by separators, between a leading and a trailing pad *)

\* The numbers written in viewBox texts, each with the value it denotes.
VBNumerals ==
    { [text |-> <<"-", "2", ".", "5">>,  val |-> [n |-> 0 - 25, e |-> 1]],
      [text |-> <<"1", "0">>,            val |-> [n |-> 10, e |-> 0]] }

VBJunk == { <<"x">> }

VBToks == {r.text : r \in VBNumerals} \cup VBJunk

\* Whitespace, or a comma and whitespace.
VBProperSeps == { <<" ">>, <<",", " ">>, <<" ", "\t">> }

VBSeps == VBProperSeps \cup { <<",">> }

VBPads == { <<>>, <<" ">> }

MaxToks == 4

VBShapes ==
    UNION { [lead : VBPads, toks : [1..n -> VBToks], seps : [1..(n - 1) -> VBSeps],
             trail : VBPads] : n \in 1..MaxToks }

RECURSIVE Joined(_, _, _)
Joined(toks, seps, k) ==
    IF k = 1 THEN toks[1] ELSE Joined(toks, seps, k - 1) \o seps[k - 1] \o toks[k]

Render(sh) == sh.lead \o Joined(sh.toks, sh.seps, Len(sh.toks)) \o sh.trail

NoAttrs == [viewBox |-> None, width |-> None, height |-> None]

WellFormed(root) == [well_formed |-> TRUE, root |-> root]

\* ViewBox::try_from(text)
CallViewBox ==
    /\ op = "new"
    /\ \E sh \in VBShapes :
         /\ arg' = sh
         /\ ret' = ViewBox_try_from(Render(sh))
    /\ op' = "ViewBox::try_from"
    /\ UNCHANGED self

\* Metadata::parse of a document whose root has the viewBox attribute alone
ParseViewBoxOnly ==
    /\ op = "new"
    /\ \E sh \in VBShapes :
         /\ arg' = sh
         /\ ret' = Metadata_parse(WellFormed([NoAttrs EXCEPT !.viewBox = Some(Render(sh))]))
    /\ op' = "Metadata::parse"
    /\ self' = ResultOk(ret')

NextViewBox == CallViewBox \/ ParseViewBoxOnly

SpecViewBox == Init /\ [][NextViewBox]_vars

----------------------------------------------------------------------------
(* What a viewBox text is, read off the way it was written *)

NumeralVal(text) == (CHOOSE r \in VBNumerals : r.text = text).val

AllNumerals(sh) == \A k \in 1..Len(sh.toks) : sh.toks[k] \in {r.text : r \in VBNumerals}

AllProperSeps(sh) == \A k \in 1..Len(sh.seps) : sh.seps[k] \in VBProperSeps

NoPads(sh) == sh.lead = <<>> /\ sh.trail = <<>>

\* Four numbers, nothing before or after, one separator between neighbours.
CleanFour(sh) ==
    /\ Len(sh.toks) = 4
    /\ AllNumerals(sh)
    /\ AllProperSeps(sh)
    /\ NoPads(sh)

\* The pieces a split on "optional comma, then whitespace" leaves: a bare comma
\* separates nothing, and a pad cuts off an empty piece at its end of the text.
PieceCount(sh) ==
    Len(sh.toks)
    - Cardinality({k \in 1..Len(sh.seps) : sh.seps[k] \notin VBProperSeps})
    + (IF sh.lead = <<>> THEN 0 ELSE 1)
    + (IF sh.trail = <<>> THEN 0 ELSE 1)

\* Every piece is one of the numbers.
AllPiecesNumbers(sh) == AllNumerals(sh) /\ AllProperSeps(sh) /\ NoPads(sh)

\* C5: four numbers joined by whitespace or comma-and-whitespace separators,
\* with nothing before or after, parse to Ok(ViewBox) holding the four values
\* in the order written, negative ones included.
C5_FourNumbersInOrder ==
    (op = "ViewBox::try_from" /\ CleanFour(arg)) =>
        ret = Ok([min_x  |-> NumeralVal(arg.toks[1]),
                  min_y  |-> NumeralVal(arg.toks[2]),
                  width  |-> NumeralVal(arg.toks[3]),
                  height |-> NumeralVal(arg.toks[4])])

C5_Witness ==
    /\ op = "ViewBox::try_from"
    /\ CleanFour(arg)
    /\ arg.seps = << <<",", " ">>, <<" ", "\t">>, <<" ">> >>
    /\ arg.toks = << <<"1", "0">>, <<"1", "0">>, <<"-", "2", ".", "5">>, <<"1", "0">> >>
    /\ ret.ok
    /\ ret.val.width = [n |-> 0 - 25, e |-> 1]
    /\ ret.val.height = [n |-> 10, e |-> 0]

PaddedFour(sh) ==
    /\ Len(sh.toks) = 4
    /\ AllNumerals(sh)
    /\ AllProperSeps(sh)
    /\ (sh.lead = <<>>) /= (sh.trail = <<>>)

\* C10: four numbers with leading or trailing whitespace split into five
\* pieces and are refused with the count error for 5, so Metadata::parse leaves
\* view_box None; the float-conversion error is returned exactly when the text
\* splits into four pieces of which one is no number.
C10_CountBeforeConversion ==
    /\ (op = "ViewBox::try_from" /\ PaddedFour(arg)) =>
           ret = Err(<<"Invalid view_box: Expected four elements, got ", "5">>)
    /\ (op = "Metadata::parse" /\ PaddedFour(arg)) =>
           (ret.ok /\ ret.val.view_box = None)
    /\ op = "ViewBox::try_from" =>
           ((~ret.ok /\ ret.err = <<"Cannot convert string to float">>)
                <=> (PieceCount(arg) = 4 /\ ~AllPiecesNumbers(arg)))

C10_Witness ==
    /\ op = "Metadata::parse"
    /\ PaddedFour(arg)
    /\ arg.lead = <<" ">>
    /\ Len(Render(arg)) > 8
    /\ ret.ok
    /\ ret.val.view_box = None

----------------------------------------------------------------------------
(* Length texts: a prefix, a number (or none), and a suffix *)

\* The numbers written in length texts, each with the value it denotes.
DimNumerals ==
    { [text |-> <<"1", "0", "0">>,           val |-> [n |-> 100, e |-> 0]],
      [text |-> <<"-", "1", "0", ".", "0">>, val |-> [n |-> 0 - 10, e |-> 0]],
      [text |-> <<"+", "1", ".", "5">>,      val |-> [n |-> 15, e |-> 1]] }

\* What may stand before the number: nothing, or text that starts no number.
DimPrefixes == { <<>>, <<"p", "x">>, <<"a", "b", "c">>, <<"a", "b", "c", "|">> }

\* The characters of suffixes: the letters of the units in both cases, the
\* percent sign, and two characters of no unit.  None is a digit or a point, so
\* a suffix never lengthens the number before it.
SufChars == {"e", "m", "x", "p", "t", "c", "i", "n",
             "E", "M", "X", "P", "T", "C", "I", "N", "%", "z", " "}

MaxSuffixLen == 2

Suffixes == UNION { [1..n -> SufChars] : n \in 0..MaxSuffixLen }

DimShapes ==
    [pre : DimPrefixes, num : {r.text : r \in DimNumerals} \cup {<<>>}, suf : Suffixes]

DimText(sh) == sh.pre \o sh.num \o sh.suf

\* Width::try_from(text)
CallWidth ==
    /\ op = "new"
    /\ \E sh \in DimShapes :
         /\ arg' = sh
         /\ ret' = Width_try_from(DimText(sh))
    /\ op' = "Width::try_from"
    /\ UNCHANGED self

\* Height::try_from(text)
CallHeight ==
    /\ op = "new"
    /\ \E sh \in DimShapes :
         /\ arg' = sh
         /\ ret' = Height_try_from(DimText(sh))
    /\ op' = "Height::try_from"
    /\ UNCHANGED self

\* Unit::try_from(token)
CallUnit ==
    /\ op = "new"
    /\ \E tok \in Suffixes :
         /\ arg' = [pre |-> <<>>, num |-> <<>>, suf |-> tok]
         /\ ret' = Unit_try_from(tok)
    /\ op' = "Unit::try_from"
    /\ UNCHANGED self

NextDimension == CallWidth \/ CallHeight \/ CallUnit

SpecDimension == Init /\ [][NextDimension]_vars

(* What a length text is, read off the way it was written *)

\* The nine units, each with its spelling in lower and in upper case.
UnitSpellings ==
    { [lo |-> <<"e", "m">>, up |-> <<"E", "M">>, unit |-> "Em"],
      [lo |-> <<"e", "x">>, up |-> <<"E", "X">>, unit |-> "Ex"],
      [lo |-> <<"p", "x">>, up |-> <<"P", "X">>, unit |-> "Px"],
      [lo |-> <<"p", "t">>, up |-> <<"P", "T">>, unit |-> "Pt"],
      [lo |-> <<"p", "c">>, up |-> <<"P", "C">>, unit |-> "Pc"],
      [lo |-> <<"c", "m">>, up |-> <<"C", "M">>, unit |-> "Cm"],
      [lo |-> <<"m", "m">>, up |-> <<"M", "M">>, unit |-> "Mm"],
      [lo |-> <<"i", "n">>, up |-> <<"I", "N">>, unit |-> "In"],
      [lo |-> <<"%">>,      up |-> <<"%">>,      unit |-> "Percent"] }

\* tok is the spelling r in some mix of cases.
Spells(tok, r) ==
    /\ Len(tok) = Len(r.lo)
    /\ \A k \in 1..Len(tok) : tok[k] \in {r.lo[k], r.up[k]}

IsUnitSpelling(tok) == \E r \in UnitSpellings : Spells(tok, r)

UnitSpelled(tok) == (CHOOSE r \in UnitSpellings : Spells(tok, r)).unit

DimNumeralVal(text) == (CHOOSE r \in DimNumerals : r.text = text).val

\* The text begins with a number: an optional sign, digits, an optional
\* decimal part.
BeginsWithNumeral(sh) == sh.pre = <<>> /\ sh.num /= <<>>

\* The unit suffix: the one or two characters that follow the number.
UnitSuffix(sh) == SubSeq(sh.suf, 1, IF Len(sh.suf) < 2 THEN Len(sh.suf) ELSE 2)

IsLengthCall == op \in {"Width::try_from", "Height::try_from"}

\* The magnitude and the unit of an Ok(Width) or an Ok(Height).
Magnitude(r) == IF op = "Width::try_from" THEN r.val.width ELSE r.val.height

\* C7 as claimed: a length text that does not begin with a number is refused
\* with the no-magnitude error, whatever follows.
C7_NoLeadingNumberFails ==
    (IsLengthCall /\ ~BeginsWithNumeral(arg)) =>
        (~ret.ok /\ ret.err \in {NoDimension, NoWidth})

\* C8: a number followed by nothing or by one of the nine unit spellings, in
\* any mix of cases, parses as a Width and as a Height to that magnitude and
\* that unit; with no suffix the unit is Em, with "%" it is Percent.
C8_NumberAndUnit ==
    (IsLengthCall /\ BeginsWithNumeral(arg)
                  /\ (arg.suf = <<>> \/ IsUnitSpelling(arg.suf))) =>
        /\ ret.ok
        /\ Magnitude(ret) = DimNumeralVal(arg.num)
        /\ ret.val.unit = (IF arg.suf = <<>> THEN "Em" ELSE UnitSpelled(arg.suf))
        /\ DOMAIN ret.val = (IF op = "Width::try_from" THEN {"width", "unit"}
                                                       ELSE {"height", "unit"})

C8_Witness ==
    /\ op = "Height::try_from"
    /\ arg = [pre |-> <<>>, num |-> <<"+", "1", ".", "5">>, suf |-> <<"c", "M">>]
    /\ ret = Ok([height |-> [n |-> 15, e |-> 1], unit |-> "Cm"])

\* C9: Unit::try_from accepts exactly the nine spellings, in any mix of cases,
\* and refuses every other token with "Unknown unit: " followed by the token as
\* given; a length whose number is followed by an unknown unit suffix is
\* refused with that error and does not become Em.
C9_UnknownUnitRefused ==
    /\ op = "Unit::try_from" =>
           ret = (IF IsUnitSpelling(arg.suf) THEN Ok(UnitSpelled(arg.suf))
                  ELSE Err(<<"Unknown unit: ">> \o arg.suf))
    /\ (IsLengthCall /\ BeginsWithNumeral(arg) /\ arg.suf /= <<>>
                     /\ ~IsUnitSpelling(UnitSuffix(arg))) =>
           ret = Err(<<"Unknown unit: ">> \o UnitSuffix(arg))

C9_Witness ==
    /\ op = "Width::try_from"
    /\ arg = [pre |-> <<>>, num |-> <<"1", "0", "0">>, suf |-> <<"z", "E">>]
    /\ ret = Err(<<"Unknown unit: ", "z", "E">>)

----------------------------------------------------------------------------
(* Documents, Metadata::parse and the accessors *)

F(k) == [n |-> k, e |-> 0]

\* viewBox attribute texts, each with the ViewBox it denotes, if any.
VBAttrs ==
    { [text |-> <<"0", " ", "1", " ", "9", "9", " ", "1", "0", "0">>,
       is   |-> Some([min_x |-> F(0), min_y |-> F(1), width |-> F(99), height |-> F(100)])],
      [text |-> <<"0", " ", "1", " ", "8", "0", " ", "2", "0", "0">>,
       is   |-> Some([min_x |-> F(0), min_y |-> F(1), width |-> F(80), height |-> F(200)])],
      [text |-> <<"-", "0", ",", " ", "1", ",", " ", "-", "9", ".", "5", ",", " ", "-", "2", "0">>,
       is   |-> Some([min_x |-> F(0), min_y |-> F(1),
                      width |-> [n |-> 0 - 95, e |-> 1], height |-> F(0 - 20)])],
      [text |-> <<"0", ",", "1", ",", "9", "9", ",", "1", "0", "0">>, is |-> None],
      [text |-> <<"0", " ", "1", " ", "9", "9">>,                     is |-> None],
      [text |-> <<"0", " ", "1", " ", "x", " ", "1", "0", "0">>,      is |-> None] }

\* width and height attribute texts, each with the magnitude and the unit it
\* denotes, if any.
LenAttrs ==
    { [text |-> <<"1", "0", "0", "%">>, is |-> Some(<<F(100), "Percent">>)],
      [text |-> <<"5", "0", "%">>,      is |-> Some(<<F(50), "Percent">>)],
      [text |-> <<"2", "0", "%">>,      is |-> Some(<<F(20), "Percent">>)],
      [text |-> <<"2", "e", "m">>,      is |-> Some(<<F(2), "Em">>)],
      [text |-> <<"1", "0", "c", "m">>, is |-> Some(<<F(10), "Cm">>)],
      [text |-> <<"1", "0", "0">>,      is |-> Some(<<F(100), "Em">>)],
      [text |-> <<"-", "1", "0", ".", "0", "p", "x">>, is |-> Some(<<F(0 - 10), "Px">>)],
      [text |-> <<"1", "0", "0", "z", "z">>,           is |-> None],
      [text |-> <<"a", "u", "t", "o">>,                is |-> None] }

Optional(S) == {None} \cup {Some(x) : x \in S}

Roots ==
    [viewBox : Optional({r.text : r \in VBAttrs}),
     width   : Optional({r.text : r \in LenAttrs}),
     height  : Optional({r.text : r \in LenAttrs})]

Docs == [well_formed : BOOLEAN, root : Roots]

\* Metadata values built field by field (the fields are public).
ViewBoxValues == {r.is.val : r \in {x \in VBAttrs : x.is.some}}

Magnitudes == {F(100), F(50), F(0 - 10), [n |-> 25, e |-> 1]}

Metadatas ==
    [view_box : Optional(ViewBoxValues),
     width    : Optional([width : Magnitudes, unit : Units]),
     height   : Optional([height : Magnitudes, unit : Units])]

\* Metadata::parse(input)
Parse ==
    /\ op = "new"
    /\ \E doc \in Docs :
         /\ arg' = doc
         /\ ret' = Metadata_parse(doc)
    /\ op' = "Metadata::parse"
    /\ self' = ResultOk(ret')

\* Metadata { view_box, width, height }
Construct ==
    /\ op = "new"
    /\ \E m \in Metadatas : self' = Some(m)
    /\ op' = "Metadata"
    /\ UNCHANGED <<arg, ret>>

\* self.width()
Width ==
    /\ op \in {"Metadata::parse", "Metadata"}
    /\ self.some
    /\ ret' = Metadata_width(self.val)
    /\ op' = "Metadata::width"
    /\ UNCHANGED <<arg, self>>

\* self.height()
Height ==
    /\ op \in {"Metadata::parse", "Metadata"}
    /\ self.some
    /\ ret' = Metadata_height(self.val)
    /\ op' = "Metadata::height"
    /\ UNCHANGED <<arg, self>>

Next == Parse \/ Construct \/ Width \/ Height

Spec == Init /\ [][Next]_vars

(* What the attributes of a document are, read off the tables *)

VBAttrIs(a) == IF a.some THEN (CHOOSE r \in VBAttrs : r.text = a.val).is ELSE None

LenAttrIs(a) == IF a.some THEN (CHOOSE r \in LenAttrs : r.text = a.val).is ELSE None

WidthAttrIs(a) ==
    IF LenAttrIs(a).some
    THEN Some([width |-> LenAttrIs(a).val[1], unit |-> LenAttrIs(a).val[2]]) ELSE None

HeightAttrIs(a) ==
    IF LenAttrIs(a).some
    THEN Some([height |-> LenAttrIs(a).val[1], unit |-> LenAttrIs(a).val[2]]) ELSE None

\* self was parsed from a document (arg), not built field by field.
Parsed == arg /= NoArg

\* C1: on a well-formed document each of view_box, width and height is Some(v)
\* exactly when its own attribute is present and its own parser returns Ok(v),
\* and None otherwise, whatever the other two attributes are.
C1_FieldsIndependent ==
    (op = "Metadata::parse" /\ arg.well_formed) =>
        /\ ret.ok
        /\ ret.val.view_box = VBAttrIs(arg.root.viewBox)
        /\ ret.val.width = WidthAttrIs(arg.root.width)
        /\ ret.val.height = HeightAttrIs(arg.root.height)
        /\ ret.val.view_box = (IF arg.root.viewBox.some
                               THEN ResultOk(ViewBox_try_from(arg.root.viewBox.val))
                               ELSE None)
        /\ ret.val.width = (IF arg.root.width.some
                            THEN ResultOk(Width_try_from(arg.root.width.val))
                            ELSE None)
        /\ ret.val.height = (IF arg.root.height.some
                             THEN ResultOk(Height_try_from(arg.root.height.val))
                             ELSE None)

C1_Witness ==
    /\ op = "Metadata::parse"
    /\ arg.well_formed
    /\ arg.root = [viewBox |-> Some(<<"0", ",", "1", ",", "9", "9", ",", "1", "0", "0">>),
                   width   |-> Some(<<"2", "e", "m">>),
                   height  |-> Some(<<"1", "0", "0", "z", "z">>)]
    /\ ret = Ok([view_box |-> None,
                 width    |-> Some([width |-> F(2), unit |-> "Em"]),
                 height   |-> None])

\* C2: Metadata::parse returns Err exactly when the document is refused by the
\* XML parser; a well-formed document gives Ok whatever its three attributes
\* hold, and Ok(Metadata{None, None, None}) when it has none of them.
C2_ErrOnlyOnMalformedDocument ==
    op = "Metadata::parse" =>
        /\ ret.ok <=> arg.well_formed
        /\ (arg.well_formed /\ arg.root = NoAttrs) =>
               ret = Ok([view_box |-> None, width |-> None, height |-> None])

C2_Witness ==
    /\ op = "Metadata::parse"
    /\ arg.well_formed
    /\ arg.root.viewBox = Some(<<"0", " ", "1", " ", "x", " ", "1", "0", "0">>)
    /\ arg.root.width = Some(<<"a", "u", "t", "o">>)
    /\ arg.root.height = Some(<<"1", "0", "0", "z", "z">>)
    /\ ret = Ok([view_box |-> None, width |-> None, height |-> None])

RECURSIVE Pow10(_)
Pow10(k) == IF k = 0 THEN 1 ELSE 10 * Pow10(k - 1)

\* r = w / 100 * v, as an equation between the exact values.
IsPercentOf(r, w, v) == r.n * 100 * Pow10(w.e + v.e) = w.n * v.n * Pow10(r.e)

DocD ==
    [viewBox |-> Some(<<"0", " ", "1", " ", "8", "0", " ", "2", "0", "0">>),
     width   |-> Some(<<"5", "0", "%">>),
     height  |-> Some(<<"2", "0", "%">>)]

DocC ==
    [viewBox |-> Some(<<"0", " ", "1", " ", "9", "9", " ", "1", "0", "0">>),
     width   |-> Some(<<"1", "0", "0", "%">>),
     height  |-> Some(<<"1", "0", "0", "%">>)]

\* C3: with a percent width and a view_box, width() is Some(width / 100 *
\* view_box.width), and likewise height() against view_box.height: 50% and 20%
\* of the viewBox "0 1 80 200" are both 40, 100% of "0 1 99 100" are 99 and 100.
C3_PercentOfViewBox ==
    /\ (op = "Metadata::width" /\ self.val.width.some /\ self.val.view_box.some
            /\ self.val.width.val.unit = "Percent") =>
           /\ ret.some
           /\ IsPercentOf(ret.val, self.val.width.val.width, self.val.view_box.val.width)
    /\ (op = "Metadata::height" /\ self.val.height.some /\ self.val.view_box.some
            /\ self.val.height.val.unit = "Percent") =>
           /\ ret.some
           /\ IsPercentOf(ret.val, self.val.height.val.height, self.val.view_box.val.height)
    /\ (Parsed /\ arg.well_formed /\ arg.root = DocD
            /\ op \in {"Metadata::width", "Metadata::height"}) => ret = Some(F(40))
    /\ (Parsed /\ arg.well_formed /\ arg.root = DocC /\ op = "Metadata::width") =>
           ret = Some(F(99))
    /\ (Parsed /\ arg.well_formed /\ arg.root = DocC /\ op = "Metadata::height") =>
           ret = Some(F(100))

C3_Witness ==
    /\ op = "Metadata::height"
    /\ Parsed
    /\ arg.well_formed
    /\ arg.root = DocD
    /\ self.val.height = Some([height |-> F(20), unit |-> "Percent"])
    /\ self.val.view_box.val.height = F(200)
    /\ ret = Some(F(40))

\* Not the case of a percent length with a view_box to take it of.
PlainWidth(m) == ~(m.width.some /\ m.width.val.unit = "Percent" /\ m.view_box.some)

PlainHeight(m) == ~(m.height.some /\ m.height.val.unit = "Percent" /\ m.view_box.some)

\* C4: outside the percent-with-view_box case width() is the magnitude of the
\* width field as it stands, for every unit, and for Percent when view_box is
\* None ("100%" with the viewBox missing or malformed gives 100); width() is
\* None exactly when the width field is None.  Likewise height().
C4_RawMagnitudeOtherwise ==
    /\ op = "Metadata::width" =>
           /\ PlainWidth(self.val) =>
                  ret = (IF self.val.width.some THEN Some(self.val.width.val.width) ELSE None)
           /\ (ret = None) <=> (self.val.width = None)
    /\ op = "Metadata::height" =>
           /\ PlainHeight(self.val) =>
                  ret = (IF self.val.height.some THEN Some(self.val.height.val.height) ELSE None)
           /\ (ret = None) <=> (self.val.height = None)
    /\ (op = "Metadata::width" /\ Parsed /\ arg.well_formed
            /\ arg.root.width = Some(<<"1", "0", "0", "%">>)
            /\ VBAttrIs(arg.root.viewBox) = None) => ret = Some(F(100))

C4_Witness ==
    /\ op = "Metadata::width"
    /\ Parsed
    /\ arg.well_formed
    /\ arg.root.viewBox = Some(<<"0", ",", "1", ",", "9", "9", ",", "1", "0", "0">>)
    /\ arg.root.width = Some(<<"1", "0", "0", "%">>)
    /\ self.val.view_box = None
    /\ ret = Some(F(100))

=============================================================================
